---- MODULE Spec2Model ----
(***************************************************************************)
(* Model of mzr-disi-utils: the ISO-TP frame codec and transport engine    *)
(* (download/src/isotp.rs) and the MZR session layer with its download     *)
(* and programming state machines (mzr/src/lib.rs).                        *)
(*                                                                         *)
(* Integers keep the width of their Rust type.  An arithmetic overflow     *)
(* (here: a shift by at least the width of the type) panics in a build     *)
(* with overflow checks and uses the shift amount modulo the width in a    *)
(* build without them; overflow_checks is the profile of the build.        *)
(***************************************************************************)
EXTENDS Integers, Sequences, FiniteSets, TLC

VARIABLES overflow_checks, codec, can, writer, reader, prog, uds, dl, keygen

vars == <<overflow_checks, codec, can, writer, reader, prog, uds, dl, keygen>>

(***************************************************************************)
(* Bounds of the model.                                                    *)
(***************************************************************************)
MaxBase == 2

MaxBlockSize == 2

MaxPayloadLen == 21

MaxPeerMsgs == 2

MaxFaults == 1

MaxTime == 3

Timeout == 2

MaxChunks == 2

MaxProgCalls == 6

MaxStarts == 2

MaxDlCalls == 259

MaxIrregular == 2

(***************************************************************************)
(* Fixed-width integer helpers.                                            *)
(***************************************************************************)
RECURSIVE BitAnd(_, _)
BitAnd(a, b) ==
  IF a = 0 \/ b = 0 THEN 0
  ELSE (a % 2) * (b % 2) + 2 * BitAnd(a \div 2, b \div 2)

RECURSIVE BitOr(_, _)
BitOr(a, b) ==
  IF a = 0 THEN b
  ELSE IF b = 0 THEN a
  ELSE (IF a % 2 = 1 \/ b % 2 = 1 THEN 1 ELSE 0) + 2 * BitOr(a \div 2, b \div 2)

RECURSIVE BitXor(_, _)
BitXor(a, b) ==
  IF a = 0 THEN b
  ELSE IF b = 0 THEN a
  ELSE ((a + b) % 2) + 2 * BitXor(a \div 2, b \div 2)

\* x >> k on an unsigned w-bit integer in a build without overflow checks
WrappingShr(x, k, w) ==
  x \div (2 ^ (k % w))

\* x << k on an unsigned w-bit integer in a build without overflow checks
WrappingShl(x, k, w) ==
  (x * (2 ^ (k % w))) % (2 ^ w)

\* x & mask for a 32-bit mask given by its two 16-bit halves (x < 2^31)
BitAnd32(x, mask_hi, mask_lo) ==
  BitAnd(x \div 65536, mask_hi) * 65536 + BitAnd(x % 65536, mask_lo)

\* `as u8`
AsU8(x) ==
  x % 256

Min(a, b) ==
  IF a <= b THEN a ELSE b

Max(a, b) ==
  IF a >= b THEN a ELSE b

\* Result<T, E> and a panic of the thread
Ok(v) ==
  [tag |-> "Ok", val |-> v]

Err(e) ==
  [tag |-> "Err", val |-> e]

Panic ==
  [tag |-> "Panic", val |-> "panic"]

None ==
  [tag |-> "None", val |-> "none"]

(***************************************************************************)
(* Byte buffers.                                                           *)
(***************************************************************************)
Bases ==
  {(k * 85) % 256 : k \in 0..MaxBase}

\* the n bytes base, base+1, ... (mod 256)
Bytes(base, n) ==
  [i \in 1..n |-> (base + i - 1) % 256]

Zeros(n) ==
  [i \in 1..n |-> 0]

\* buffer[from..to] of Rust (0-based, to exclusive)
Slice(s, from, to) ==
  SubSeq(s, from + 1, to)

\* [0; n] with frame_data[..data.len()].copy_from_slice(data)
Padded(data, n) ==
  data \o Zeros(n - Len(data))

(***************************************************************************)
(* Frame codec (isotp.rs).  A Duration is its length in microseconds.      *)
(***************************************************************************)
FCFlagValue(flag) ==
  CASE flag = "Continue" -> 0
    [] flag = "Wait" -> 1
    [] flag = "Overflow" -> 2

from_millis(ms) ==
  ms * 1000

from_micros(us) ==
  us

subsec_micros(duration) ==
  duration % 1000000

st_to_duration(st) ==
  IF st <= 127 THEN from_millis(st) ELSE from_micros(st)

duration_to_st(duration) ==
  IF subsec_micros(duration) <= 900 /\ subsec_micros(duration) >= 100
  THEN AsU8(Max(subsec_micros(duration) \div 100, 1) + 240)
  ELSE AsU8(subsec_micros(duration))

consecutive(data, index) ==
  [kind |-> "Consecutive", index |-> index, data |-> Padded(data, 7)]

first(data, size) ==
  [kind |-> "First", size |-> size, data |-> Padded(data, 6)]

single(data) ==
  [kind |-> "Single", length |-> Len(data), data |-> Padded(data, 7)]

Flow(flag, block_size, separation_time) ==
  [kind |-> "Flow", flag |-> flag, block_size |-> block_size,
   separation_time |-> separation_time]

Message(id, data) ==
  [id |-> id, data |-> data, len |-> 8]

\* Frame::as_can_message: Ok(message), or Panic when the shift overflows
as_can_message(frame, id) ==
  CASE frame.kind = "Single" ->
         Ok(Message(id, <<frame.length>> \o frame.data))
    [] frame.kind = "First" ->
         \* ((size & 0xF00) >> 16) as u8 : a shift of a u16 by 16
         IF overflow_checks THEN Panic
         ELSE Ok(Message(id,
                <<BitOr(16, AsU8(WrappingShr(BitAnd(frame.size, 3840), 16, 16))),
                  AsU8(BitAnd(frame.size, 255))>> \o frame.data))
    [] frame.kind = "Consecutive" ->
         Ok(Message(id, <<BitOr(32, frame.index)>> \o frame.data))
    [] frame.kind = "Flow" ->
         Ok(Message(id,
            <<BitOr(48, FCFlagValue(frame.flag)), frame.block_size,
              duration_to_st(frame.separation_time), 0, 0, 0, 0, 0>>))

\* TryFrom<Message> for Frame: Ok(frame), Err(error), or Panic
try_from(msg) ==
  \* (msg.data[0] & 0xF0) >> 8 : a shift of a u8 by 8
  IF overflow_checks THEN Panic
  ELSE LET code == WrappingShr(BitAnd(msg.data[1], 240), 8, 8) IN
    CASE code = 0 ->
           Ok([kind |-> "Single", length |-> BitAnd(msg.data[1], 7),
               data |-> Slice(msg.data, 1, 8)])
      [] code = 1 ->
           \* ((msg.data[0] as u16 & 0x0F) << 16) | msg.data[1] as u16
           Ok([kind |-> "First",
               size |-> BitOr(WrappingShl(BitAnd(msg.data[1], 15), 16, 16), msg.data[2]),
               data |-> Slice(msg.data, 2, 8)])
      [] code = 2 ->
           Ok([kind |-> "Consecutive", index |-> BitAnd(msg.data[1], 15),
               data |-> Slice(msg.data, 1, 8)])
      [] code = 3 ->
           LET fl == BitAnd(msg.data[1], 3) IN
           IF fl = 3 THEN Err("InvalidFcFlag")
           ELSE Ok(Flow(CASE fl = 0 -> "Continue" [] fl = 1 -> "Wait" [] fl = 2 -> "Overflow",
                        msg.data[2], st_to_duration(msg.data[3])))
      [] OTHER -> Err("InvalidFrameId")

(***************************************************************************)
(* Frame codec exercised on its own: a frame is encoded and the message    *)
(* decoded again, a message is decoded, a separation-time byte is          *)
(* converted to a Duration and back.                                       *)
(***************************************************************************)
SourceId == 2016

DestId == 2024

OtherId ==
  DestId + 1

FCFlags ==
  {"Continue", "Wait", "Overflow"}

NoFrame ==
  [kind |-> "None"]

NoMessage ==
  Message(0, <<>>)

CodecIdle ==
  [stage |-> "idle", frame |-> NoFrame, msg |-> NoMessage, res |-> None, st |-> 0,
   dur |-> 0, st2 |-> 0]

\* the frames the constructors and struct literals of the codec can build
SingleFrames ==
  {single(Bytes(b, n)) : b \in Bases, n \in 0..7}

FirstFrames ==
  {first(Bytes(b, Min(size, 6)), size) : b \in Bases, size \in 0..4095}

ConsecutiveFrames ==
  {consecutive(Bytes(b, n), i) : b \in Bases, n \in {1, 7}, i \in 0..15}

SeparationTimes ==
  {st_to_duration(b) : b \in 0..255} \cup {100 * k : k \in 1..9}

FlowFrames ==
  {Flow(fl, bs, d) : fl \in FCFlags, bs \in {0, MaxBlockSize, 255}, d \in SeparationTimes}

Frames ==
  SingleFrames \cup FirstFrames \cup ConsecutiveFrames \cup FlowFrames

\* CAN messages as they may arrive: any byte 0, some payload
Messages ==
  {Message(DestId, <<b0>> \o Bytes(b, 7)) : b0 \in 0..255, b \in Bases}

InitCodec ==
  /\ overflow_checks \in BOOLEAN
  /\ \/ \E f \in Frames : codec = [CodecIdle EXCEPT !.stage = "frame", !.frame = f]
     \/ \E m \in Messages : codec = [CodecIdle EXCEPT !.stage = "msg", !.msg = m]
     \/ \E b \in 0..255 : codec = [CodecIdle EXCEPT !.stage = "st", !.st = b]

\* frame.as_can_message(source_id)
CodecEncode ==
  /\ codec.stage = "frame"
  /\ LET r == as_can_message(codec.frame, DestId) IN
       codec' = IF r.tag = "Ok"
                THEN [codec EXCEPT !.stage = "msg", !.msg = r.val]
                ELSE [codec EXCEPT !.stage = "decoded", !.res = r]
  /\ UNCHANGED <<overflow_checks, can, writer, reader, prog, uds, dl, keygen>>

\* Frame::try_from(msg)
CodecDecode ==
  /\ codec.stage = "msg"
  /\ codec' = [codec EXCEPT !.stage = "decoded", !.res = try_from(codec.msg)]
  /\ UNCHANGED <<overflow_checks, can, writer, reader, prog, uds, dl, keygen>>

\* st_to_duration(st)
CodecStToDuration ==
  /\ codec.stage = "st"
  /\ codec' = [codec EXCEPT !.stage = "dur", !.dur = st_to_duration(codec.st)]
  /\ UNCHANGED <<overflow_checks, can, writer, reader, prog, uds, dl, keygen>>

\* duration_to_st(duration)
CodecDurationToSt ==
  /\ codec.stage = "dur"
  /\ codec' = [codec EXCEPT !.stage = "st2", !.st2 = duration_to_st(codec.dur)]
  /\ UNCHANGED <<overflow_checks, can, writer, reader, prog, uds, dl, keygen>>

NextCodec ==
  \/ CodecEncode
  \/ CodecDecode
  \/ CodecStToDuration
  \/ CodecDurationToSt

(***************************************************************************)
(* Transport engine (IsotpCan).  The writer runs write_isotp and the       *)
(* reader read_isotp, each on its own IsotpCan; the writer sends with id   *)
(* SourceId and accepts DestId, the reader the other way round.  can holds *)
(* the two receive queues, the log of what each side sent, the clock and   *)
(* the number of adapter failures (io::Error) still to come; got_w and     *)
(* got_r are the messages recv_frame has handed to each side's decoder.    *)
(***************************************************************************)
WriterIdle ==
  [pc |-> "idle", data |-> <<>>, packet |-> [buffer |-> <<>>, index |-> 0],
   flag |-> "Continue", block_size |-> 0, separation_time |-> 0,
   start_time |-> 0, read_time |-> 0, slept |-> <<>>, result |-> None]

ReaderIdle ==
  [pc |-> "idle", buffer |-> <<>>, remaining |-> 0, index |-> 0,
   start_time |-> 0, read_time |-> 0, result |-> None]

CanIdle ==
  [peer |-> FALSE, faults |-> 0, now |-> 0, injected |-> 0,
   rx_w |-> <<>>, rx_r |-> <<>>, tx_w |-> <<>>, tx_r |-> <<>>,
   got_w |-> <<>>, got_r |-> <<>>]

PayloadLens ==
  (0..MaxPayloadLen) \cup {256, 4095, 4096}

Payloads ==
  {Bytes(b, n) : b \in Bases, n \in PayloadLens}

\* SendPacket::new
SendPacket_new(buffer) ==
  IF Len(buffer) <= 4095 THEN Ok([buffer |-> buffer, index |-> 0]) ELSE Panic

\* SendPacket::first_frame: the frame and the packet after it
first_frame(packet) ==
  LET len == Min(Len(packet.buffer), 6) IN
  [frame |-> [kind |-> "First", size |-> Len(packet.buffer) % 65536,
              data |-> Slice(packet.buffer, 0, len)],
   packet |-> [buffer |-> Slice(packet.buffer, len, Len(packet.buffer)), index |-> 1]]

\* SendPacket::next_consec_frame: the frame and the packet after it
next_consec_frame(packet) ==
  LET len == Min(Len(packet.buffer), 7) IN
  [frame |-> consecutive(Slice(packet.buffer, 0, len), packet.index),
   packet |-> [buffer |-> Slice(packet.buffer, len, Len(packet.buffer)),
               index |-> IF packet.index + 1 = 16 THEN 0 ELSE packet.index + 1]]

\* SendPacket::eof
eof(packet) ==
  packet.buffer = <<>>

\* IsotpCan::send_frame: the outcomes of sending frame with the given id
send_frame(frame, id) ==
  LET m == as_can_message(frame, id) IN
  IF m.tag = "Panic" THEN {Panic}
  ELSE {m} \cup (IF can.faults > 0 THEN {Err("Io")} ELSE {})

\* IsotpCan::recv_frame with the deadline test `elapsed > timeout` after a
\* discarded message
recv_frame_late_deadline(rx, dest_id, start_time, read_time) ==
  (IF can.faults > 0
   THEN {[res |-> Err("Io"), rx |-> rx, fault |-> 1, got |-> <<>>]} ELSE {})
  \cup
  (IF rx = <<>>
   THEN IF can.now - read_time >= Timeout
        THEN {[res |-> Err("Io"), rx |-> rx, fault |-> 0, got |-> <<>>]} ELSE {}
   ELSE IF Head(rx).id = dest_id
        THEN {[res |-> try_from(Head(rx)), rx |-> Tail(rx), fault |-> 0,
               got |-> <<Head(rx)>>]}
        ELSE IF can.now - start_time > Timeout
             THEN {[res |-> Err("TimedOut"), rx |-> Tail(rx), fault |-> 0, got |-> <<>>]}
             ELSE {[res |-> None, rx |-> Tail(rx), fault |-> 0, got |-> <<>>]})

\* IsotpCan::recv_frame, one turn of its loop on the receive queue rx:
\* None when a message of another id was discarded before the deadline (the
\* caller then begins the next can.read).  start_time is the time the call
\* began, read_time the time its pending can.read began; can.read fails when
\* the adapter fails, and when no message has come within the timeout.
recv_frame(rx, dest_id, start_time, read_time) ==
  (IF can.faults > 0
   THEN {[res |-> Err("Io"), rx |-> rx, fault |-> 1, got |-> <<>>]} ELSE {})
  \cup
  (IF rx = <<>>
   THEN IF can.now - read_time >= Timeout
        THEN {[res |-> Err("Io"), rx |-> rx, fault |-> 0, got |-> <<>>]} ELSE {}
   ELSE IF Head(rx).id = dest_id
        THEN {[res |-> try_from(Head(rx)), rx |-> Tail(rx), fault |-> 0,
               got |-> <<Head(rx)>>]}
        ELSE IF can.now - start_time >= Timeout
             THEN {[res |-> Err("TimedOut"), rx |-> Tail(rx), fault |-> 0, got |-> <<>>]}
             ELSE {[res |-> None, rx |-> Tail(rx), fault |-> 0, got |-> <<>>]})

\* IsotpCan::recv_flow_control_frame applied to the result of recv_frame
recv_flow_control_frame(res) ==
  IF res.tag = "Ok"
  THEN IF res.val.kind = "Flow" THEN res ELSE Err("UnexpectedFrame")
  ELSE res

Finished(proc, res) ==
  [proc EXCEPT !.pc = "done", !.result = res]

\* write_isotp up to its first receive
WriteCall ==
  /\ writer.pc = "ready"
  /\ \E data \in Payloads :
       IF Len(data) <= 7
       THEN \E s \in send_frame(single(data), SourceId) :
              /\ writer' = Finished([writer EXCEPT !.data = data],
                                    IF s.tag = "Ok" THEN Ok(<<>>) ELSE s)
              /\ can' = IF s.tag = "Ok"
                        THEN [can EXCEPT !.tx_w = Append(@, s.val), !.rx_r = Append(@, s.val)]
                        ELSE IF s.tag = "Err" THEN [can EXCEPT !.faults = @ - 1] ELSE can
       ELSE LET p == SendPacket_new(data) IN
            IF p.tag = "Panic"
            THEN /\ writer' = Finished([writer EXCEPT !.data = data], Panic)
                 /\ can' = can
            ELSE LET ff == first_frame(p.val) IN
                 \E s \in send_frame(ff.frame, SourceId) :
                   IF s.tag = "Ok"
                   THEN /\ writer' = [writer EXCEPT !.data = data, !.packet = ff.packet,
                                                    !.pc = "await_fc",
                                                    !.start_time = can.now,
                                                    !.read_time = can.now]
                        /\ can' = [can EXCEPT !.tx_w = Append(@, s.val),
                                              !.rx_r = Append(@, s.val)]
                   ELSE /\ writer' = Finished([writer EXCEPT !.data = data,
                                                             !.packet = ff.packet], s)
                        /\ can' = IF s.tag = "Err" THEN [can EXCEPT !.faults = @ - 1]
                                  ELSE can
  /\ UNCHANGED <<overflow_checks, codec, reader, prog, uds, dl, keygen>>

\* the while loop of write_isotp from its head to the next receive or the end,
\* w being the writer with the flow control values in force
WriteLoop(w) ==
  IF eof(w.packet)
  THEN /\ writer' = Finished(w, Ok(<<>>))
       /\ can' = can
  ELSE LET nf == next_consec_frame(w.packet)
           w1 == [w EXCEPT !.packet = nf.packet,
                           !.slept = IF w.separation_time # 0
                                     THEN Append(@, w.separation_time) ELSE @]
       IN \E s \in send_frame(nf.frame, SourceId) :
            IF s.tag = "Ok"
            THEN /\ can' = [can EXCEPT !.tx_w = Append(@, s.val), !.rx_r = Append(@, s.val)]
                 /\ writer' =
                      IF ~eof(w1.packet) /\ w1.block_size > 0
                      THEN IF w1.block_size - 1 = 0
                           THEN [w1 EXCEPT !.block_size = 0, !.pc = "await_fc",
                                           !.start_time = can.now,
                                           !.read_time = can.now]
                           ELSE [w1 EXCEPT !.block_size = @ - 1, !.pc = "send"]
                      ELSE IF eof(w1.packet) THEN Finished(w1, Ok(<<>>))
                           ELSE [w1 EXCEPT !.pc = "send"]
            ELSE /\ writer' = Finished(w1, s)
                 /\ can' = IF s.tag = "Err" THEN [can EXCEPT !.faults = @ - 1] ELSE can

\* write_isotp from a receive of recv_flow_control_frame, or one turn of its loop
WriteStep ==
  /\ writer.pc \in {"await_fc", "send"}
  /\ IF writer.pc = "send"
     THEN WriteLoop(writer)
     ELSE \E r \in recv_frame(can.rx_w, DestId, writer.start_time, writer.read_time) :
            LET fc == recv_flow_control_frame(r.res)
                c == [can EXCEPT !.rx_w = r.rx, !.faults = @ - r.fault,
                                 !.got_w = @ \o r.got]
            IN IF fc.tag = "None"
               THEN /\ writer' = [writer EXCEPT !.read_time = can.now]
                    /\ can' = c
               ELSE IF fc.tag = "Ok"
               THEN /\ writer' = [writer EXCEPT !.flag = fc.val.flag,
                                                !.block_size = fc.val.block_size,
                                                !.separation_time = fc.val.separation_time,
                                                !.pc = "send"]
                    /\ can' = c
               ELSE /\ writer' = Finished(writer, fc)
                    /\ can' = c
  /\ UNCHANGED <<overflow_checks, codec, reader, prog, uds, dl, keygen>>

\* read_isotp enters its first recv_frame
ReadCall ==
  /\ reader.pc = "ready"
  /\ reader' = [reader EXCEPT !.pc = "open", !.start_time = can.now,
                              !.read_time = can.now]
  /\ UNCHANGED <<overflow_checks, codec, can, writer, prog, uds, dl, keygen>>

\* read_isotp after its opening frame
ReadOpen(frame, c) ==
  CASE frame.kind = "Single" ->
         /\ reader' = Finished(reader, Ok(Slice(frame.data, 0, Min(frame.length, 7))))
         /\ can' = c
    [] frame.kind = "First" ->
         LET buffer == Slice(frame.data, 0, Min(frame.size, 6))
             remaining == frame.size - Len(buffer)
             r1 == [reader EXCEPT !.buffer = buffer, !.remaining = remaining]
         IN \E s \in send_frame(Flow("Continue", 0, st_to_duration(0)), DestId) :
              IF s.tag = "Ok"
              THEN /\ can' = [c EXCEPT !.tx_r = Append(@, s.val), !.rx_w = Append(@, s.val)]
                   /\ reader' = IF remaining > 0
                                THEN [r1 EXCEPT !.index = 1, !.pc = "drain",
                                                !.start_time = can.now,
                                           !.read_time = can.now]
                                ELSE Finished([r1 EXCEPT !.index = 1], Ok(buffer))
              ELSE /\ reader' = Finished(r1, s)
                   /\ can' = IF s.tag = "Err" THEN [c EXCEPT !.faults = @ - 1] ELSE c
    [] OTHER ->
         /\ reader' = Finished(reader, Err("UnexpectedFrame"))
         /\ can' = c

\* one turn of the while loop of read_isotp on the frame received
ReadDrain(frame, c) ==
  /\ can' = c
  /\ IF frame.kind # "Consecutive"
     THEN reader' = Finished(reader, Err("UnexpectedFrame"))
     ELSE IF frame.index # reader.index
     THEN reader' = Finished(reader, Err("InvalidIndex"))
     ELSE LET len == Min(reader.remaining, 7)
              r1 == [reader EXCEPT !.buffer = @ \o frame.data,
                                   !.remaining = @ - len,
                                   !.index = IF @ + 1 = 16 THEN 0 ELSE @ + 1]
          IN reader' = IF r1.remaining > 0
                       THEN [r1 EXCEPT !.start_time = can.now, !.read_time = can.now]
                       ELSE Finished(r1, Ok(r1.buffer))

\* read_isotp from a receive of recv_frame to the next one or to its return
ReadStep ==
  /\ reader.pc \in {"open", "drain"}
  /\ \E r \in recv_frame(can.rx_r, SourceId, reader.start_time, reader.read_time) :
       LET c == [can EXCEPT !.rx_r = r.rx, !.faults = @ - r.fault,
                            !.got_r = @ \o r.got] IN
       IF r.res.tag = "None"
       THEN /\ reader' = [reader EXCEPT !.read_time = can.now]
            /\ can' = c
       ELSE IF r.res.tag # "Ok"
       THEN /\ reader' = Finished(reader, r.res)
            /\ can' = c
       ELSE IF reader.pc = "open"
       THEN ReadOpen(r.res.val, c)
       ELSE ReadDrain(r.res.val, c)
  /\ UNCHANGED <<overflow_checks, codec, writer, prog, uds, dl, keygen>>

\* the peer on the bus: the messages it may put on the wire with the given id
PeerByte0 ==
  {3, 7, 16, 33, 34, 48, 49, 50, 51, 64, 240}

PeerMsgs(id) ==
  {Message(id, <<b0, b1, b2, 3, 4, 5, 6, 7>>) :
     b0 \in PeerByte0, b1 \in {0, MaxBlockSize, 20}, b2 \in {0, 241}}
  \cup {Message(OtherId, <<48, 0, 0, 0, 0, 0, 0, 0>>)}

PeerToWriter ==
  /\ can.peer
  /\ writer.pc = "await_fc"
  /\ can.rx_w = <<>>
  /\ can.injected < MaxPeerMsgs
  /\ \E m \in PeerMsgs(DestId) :
       can' = [can EXCEPT !.rx_w = Append(@, m), !.injected = @ + 1]
  /\ UNCHANGED <<overflow_checks, codec, writer, reader, prog, uds, dl, keygen>>

PeerToReader ==
  /\ can.peer
  /\ reader.pc \in {"open", "drain"}
  /\ can.rx_r = <<>>
  /\ can.injected < MaxPeerMsgs
  /\ \E m \in PeerMsgs(SourceId) :
       can' = [can EXCEPT !.rx_r = Append(@, m), !.injected = @ + 1]
  /\ UNCHANGED <<overflow_checks, codec, writer, reader, prog, uds, dl, keygen>>

\* time passes while a call waits in recv_frame
Tick ==
  /\ {writer.pc, reader.pc} \cap {"await_fc", "open", "drain"} # {}
  /\ can.now < MaxTime
  /\ can' = [can EXCEPT !.now = @ + 1]
  /\ UNCHANGED <<overflow_checks, codec, writer, reader, prog, uds, dl, keygen>>

(***************************************************************************)
(* Session layer (mzr/src/lib.rs).  The Uds bus is the collaborator: uds   *)
(* holds the requests the last call put on it and what the callers have    *)
(* observed so far (number of calls, last operation and its result, the    *)
(* progress values reported, the chunks transferred) and of the bus (the   *)
(* exchange of the last call that failed, 0 for none; the length of the    *)
(* section the last memory read returned, -1 for none; the seed the last   *)
(* call received, <<>> for none).  passed holds the chunks step() has      *)
(* passed to transfer_data, chunks those whose transfer succeeded.         *)
(*                                                                         *)
(* A usize that has wrapped is held as a negative integer: r < 0 stands    *)
(* for 2^64 + r.  Offsets and lengths stay below 2^31.                     *)
(***************************************************************************)
\* cmp::min(r, c) for a usize r and a constant c
MinUsize(r, c) ==
  IF r < 0 THEN c ELSE Min(r, c)

MZR_KEY ==
  <<77, 97, 122, 100, 65>>

UDS_REQ_REQUESTDOWNLOAD == 52

UDS_REQ_TRANSFERDATA == 54

KeyParameter == 12927401

ChunkSize == 4094

TotalSize == 1048576

\* KeyStep with the mask 0xFFFF6FD7 in place of 0xFFEF6FD7
KeyStep_wide_mask(parameter, c) ==
  LET s == BitXor(BitAnd(c, 1), AsU8(BitAnd(parameter, 1)))
      p1 == IF s # 0 THEN BitOr(parameter, 16777216) ELSE parameter
      m == IF s # 0 THEN 1085480 ELSE 0
      p2 == p1 \div 2
      p3 == BitAnd32(p2, 65535, 28631)
      p4 == BitAnd(BitXor(p2, m), 1085480)
  IN BitAnd(BitOr(p4, p3), 16777215)

\* one of the 8 steps generate_key performs on a byte: the accumulator after it
KeyStep(parameter, c) ==
  LET s == BitXor(BitAnd(c, 1), AsU8(BitAnd(parameter, 1)))
      p1 == IF s # 0 THEN BitOr(parameter, 16777216) ELSE parameter
      m == IF s # 0 THEN 1085480 ELSE 0
      p2 == p1 \div 2
      p3 == BitAnd32(p2, 65519, 28631)
      p4 == BitAnd(BitXor(p2, m), 1085480)
  IN BitAnd(BitOr(p4, p3), 16777215)

RECURSIVE KeyByte(_, _, _)
KeyByte(parameter, c, n) ==
  IF n = 0 THEN parameter
  ELSE LET next == KeyStep(parameter, c) IN
       IF next >= 0 THEN KeyByte(next, c \div 2, n - 1) ELSE next

RECURSIVE KeyBytes(_, _)
KeyBytes(parameter, nseed) ==
  IF nseed = <<>> THEN parameter
  ELSE LET next == KeyByte(parameter, Head(nseed), 8) IN
       IF next >= 0 THEN KeyBytes(next, Tail(nseed)) ELSE next

generate_key(key, parameter, seed) ==
  LET p == KeyBytes(parameter, seed \o key) IN
  <<AsU8(BitAnd(p \div 16, 255)),
    AsU8(BitAnd(p \div 1048576, 255) + BitAnd(p \div 256, 240)),
    AsU8(BitAnd((p % 268435456) * 16, 255) + BitAnd(p \div 65536, 15))>>

Seeds ==
  {Bytes(b, 3) : b \in Bases}

\* generate_key with the seed and the secret in each other's place
SecurityKey_swapped ==
  [seed \in Seeds |-> generate_key(seed, KeyParameter, MZR_KEY)]

\* generate_key(MZR_KEY, 0xC541A9, &seed) for the seeds of the model
SecurityKey ==
  [seed \in Seeds |-> generate_key(MZR_KEY, KeyParameter, seed)]

(***************************************************************************)
(* generate_key in steps: keygen is the position of one call in its two    *)
(* loops.  nseed holds the bytes not yet taken, c the byte being shifted,  *)
(* bits the iterations of the inner loop left for it, steps the number of  *)
(* inner iterations performed so far.                                      *)
(***************************************************************************)
KeyGenIdle ==
  [pc |-> "idle", key |-> <<>>, seed |-> <<>>, input |-> 0, nseed |-> <<>>,
   c |-> 0, bits |-> 0, parameter |-> 0, steps |-> 0, res |-> <<>>]

\* entry of generate_key: nseed is the seed followed by the secret
generate_key_enter(key, parameter, seed) ==
  [KeyGenIdle EXCEPT !.pc = "loop", !.key = key, !.seed = seed,
                     !.input = parameter, !.nseed = seed \o key,
                     !.parameter = parameter]

\* res[0..3] of generate_key from the final accumulator
generate_key_pack(p) ==
  <<AsU8(BitAnd(p \div 16, 255)),
    AsU8(BitAnd(p \div 1048576, 255) + BitAnd(p \div 256, 240)),
    AsU8(BitAnd((p % 268435456) * 16, 255) + BitAnd(p \div 65536, 15))>>

\* generate_key_step with an inner loop over 1..8 exclusive of 8
generate_key_step_short_loop(k) ==
  IF k.bits > 0
  THEN [k EXCEPT !.parameter = KeyStep(k.parameter, k.c), !.c = k.c \div 2,
                 !.bits = k.bits - 1, !.steps = k.steps + 1]
  ELSE IF k.nseed # <<>>
  THEN [k EXCEPT !.parameter = KeyStep(k.parameter, Head(k.nseed)),
                 !.c = Head(k.nseed) \div 2, !.nseed = Tail(k.nseed),
                 !.bits = 6, !.steps = k.steps + 1]
  ELSE [k EXCEPT !.pc = "done", !.res = generate_key_pack(k.parameter)]

\* one iteration of the inner loop of generate_key (taking the next byte of
\* nseed when the previous one is finished), or its return when no byte is left
generate_key_step(k) ==
  IF k.bits > 0
  THEN [k EXCEPT !.parameter = KeyStep(k.parameter, k.c), !.c = k.c \div 2,
                 !.bits = k.bits - 1, !.steps = k.steps + 1]
  ELSE IF k.nseed # <<>>
  THEN [k EXCEPT !.parameter = KeyStep(k.parameter, Head(k.nseed)),
                 !.c = Head(k.nseed) \div 2, !.nseed = Tail(k.nseed),
                 !.bits = 7, !.steps = k.steps + 1]
  ELSE [k EXCEPT !.pc = "done", !.res = generate_key_pack(k.parameter)]

KeyGenStep ==
  /\ keygen.pc = "loop"
  /\ keygen' = generate_key_step(keygen)
  /\ UNCHANGED <<overflow_checks, codec, can, writer, reader, prog, uds, dl>>

\* the secrets, seeds and 24-bit parameters generate_key is applied to
KeySecrets ==
  {<<>>, <<255>>, MZR_KEY}

KeySeeds ==
  {<<>>, <<1>>} \cup Seeds

KeyParameters ==
  {0, 1, KeyParameter, 16777215}

Request(op, arg) ==
  [op |-> op, arg |-> arg]

\* MzrBus::authenticate going on when set_diagnostic_session fails
authenticate_session_unchecked(session_id, seed, fail) ==
  LET all == <<Request("set_diagnostic_session", <<session_id>>),
               Request("request_security_seed", <<>>),
               Request("request_security_key", SecurityKey[seed])>>
  IN IF fail \in 2..3
     THEN [log |-> SubSeq(all, 1, fail), result |-> Err("Obd")]
     ELSE [log |-> all, result |-> Ok(<<>>)]

\* MzrBus::authenticate: its exchanges and its result when exchange number
\* fail (0: none) fails
authenticate(session_id, seed, fail) ==
  LET all == <<Request("set_diagnostic_session", <<session_id>>),
               Request("request_security_seed", <<>>),
               Request("request_security_key", SecurityKey[seed])>>
  IN IF fail \in 1..3
     THEN [log |-> SubSeq(all, 1, fail), result |-> Err("Obd")]
     ELSE [log |-> all, result |-> Ok(<<>>)]

\* MzrBus::request_download: the request it issues
request_download(offset, length) ==
  Request(UDS_REQ_REQUESTDOWNLOAD,
          <<BitAnd32(offset, 65280, 0) \div 16777216, BitAnd(offset, 16711680) \div 65536,
            BitAnd(offset, 65280) \div 256, BitAnd(offset, 255),
            BitAnd32(length, 65280, 0) \div 16777216, BitAnd(length, 16711680) \div 65536,
            BitAnd(length, 65280) \div 256, BitAnd(length, 255)>>)

\* MzrBus::transfer_data of data[from .. from + len]: the request it issues
transfer_data(from, len) ==
  Request(UDS_REQ_TRANSFERDATA, <<from, len>>)

UdsIdle ==
  [log |-> <<>>, calls |-> 0, starts |-> 0, op |-> "none", result |-> None,
   started |-> FALSE, reports |-> <<>>, chunks |-> <<>>, irregular |-> 0,
   dead |-> FALSE, failed |-> 0, section |-> -1, seed |-> <<>>,
   passed |-> <<>>]

ProgIdle ==
  [active |-> FALSE, offset |-> 0, position |-> 0, data_len |-> 0, erased |-> FALSE]

DlIdle ==
  [active |-> FALSE, offset |-> 0, remaining |-> 0, data_len |-> 0]

ProgLens ==
  {n \in {k * ChunkSize + d : k \in 0..MaxChunks, d \in {0, 1, ChunkSize - 1}} : n >= 0}

\* Programmer::new
Programmer_new(offset, data_len) ==
  [active |-> TRUE, offset |-> offset, position |-> 0, data_len |-> data_len,
   erased |-> FALSE]

\* Programmer::start with the erased flag set as soon as authenticate succeeded
Programmer_start_erased_early(seed, fail) ==
  LET a == authenticate(133, seed, fail)
      erase == Request(177, <<0, 178, 0>>)
      dl_req == request_download(prog.offset, prog.data_len - prog.position)
      log == IF a.result.tag # "Ok" THEN a.log
             ELSE IF fail = 4 THEN a.log \o <<erase>>
             ELSE a.log \o <<erase, dl_req>>
  IN /\ prog' = [prog EXCEPT !.erased = IF a.result.tag = "Ok" THEN TRUE ELSE @]
     /\ uds' = [uds EXCEPT !.log = log, !.calls = @ + 1, !.starts = @ + 1,
                           !.op = "start", !.failed = fail,
                           !.seed = IF fail \in {1, 2} THEN <<>> ELSE seed,
                           !.result = IF fail = 0 THEN Ok(<<>>) ELSE Err("Obd"),
                           !.started = IF fail = 0 THEN TRUE ELSE @]

\* Programmer::start; exchange number fail (0: none) of its five fails
Programmer_start(seed, fail) ==
  LET a == authenticate(133, seed, fail)
      erase == Request(177, <<0, 178, 0>>)
      \* self.data.len() as u32 - self.position as u32 (lengths are below 2^31)
      dl_req == request_download(prog.offset, prog.data_len - prog.position)
      log == IF a.result.tag # "Ok" THEN a.log
             ELSE IF fail = 4 THEN a.log \o <<erase>>
             ELSE a.log \o <<erase, dl_req>>
  IN /\ prog' = [prog EXCEPT !.erased = IF fail = 0 THEN TRUE ELSE @]
     /\ uds' = [uds EXCEPT !.log = log, !.calls = @ + 1, !.starts = @ + 1,
                           !.op = "start", !.failed = fail,
                           !.seed = IF fail \in {1, 2} THEN <<>> ELSE seed,
                           !.result = IF fail = 0 THEN Ok(<<>>) ELSE Err("Obd"),
                           !.started = IF fail = 0 THEN TRUE ELSE @]

ProgStart ==
  /\ prog.active
  /\ uds.calls < MaxProgCalls
  /\ uds.starts < MaxStarts
  /\ \E seed \in Seeds, fail \in 0..5 : Programmer_start(seed, fail)
  /\ UNCHANGED <<overflow_checks, codec, can, writer, reader, dl, keygen>>

\* Programmer::step advancing position before the transfer has succeeded
Programmer_step_advance_first(ok) ==
  IF ~prog.erased
  THEN /\ prog' = prog
       /\ uds' = [uds EXCEPT !.log = <<>>, !.calls = @ + 1, !.op = "step", !.seed = <<>>,
                             !.failed = 0, !.section = -1, !.result = Err("NotErased")]
  ELSE IF prog.position = prog.data_len
  THEN /\ prog' = prog
       /\ uds' = [uds EXCEPT !.log = <<>>, !.calls = @ + 1, !.op = "step", !.seed = <<>>,
                             !.failed = 0, !.section = -1, !.result = Ok(<<"Completed">>)]
  ELSE LET to_send == Min(prog.data_len - prog.position, ChunkSize)
           req == transfer_data(prog.position, to_send)
       IN IF ~ok
          THEN /\ prog' = [prog EXCEPT !.position = @ + to_send]
               /\ uds' = [uds EXCEPT !.log = <<req>>, !.calls = @ + 1,
                                     !.op = "step", !.seed = <<>>,
                                     !.failed = 1, !.result = Err("Obd"),
                                     !.passed = Append(@, <<prog.position, to_send>>)]
          ELSE /\ prog' = [prog EXCEPT !.position = @ + to_send]
               /\ uds' = [uds EXCEPT
                    !.log = <<req>>, !.calls = @ + 1,
                    !.op = "step", !.seed = <<>>, !.failed = 0,
                    !.chunks = Append(@, <<prog.position, to_send>>),
                    !.passed = Append(@, <<prog.position, to_send>>),
                    !.result = IF prog.position + to_send # prog.data_len
                               THEN Ok(<<"InProgress", prog.position + to_send>>)
                               ELSE Ok(<<"Completed">>),
                    !.reports = IF prog.position + to_send # prog.data_len
                                THEN Append(@, prog.position + to_send) ELSE @]

\* Programmer::step with a chunk limit of 0xFFF instead of 0xFFE
Programmer_step_long_chunk(ok) ==
  IF ~prog.erased
  THEN /\ prog' = prog
       /\ uds' = [uds EXCEPT !.log = <<>>, !.calls = @ + 1, !.op = "step", !.seed = <<>>,
                             !.failed = 0, !.section = -1, !.result = Err("NotErased")]
  ELSE IF prog.position = prog.data_len
  THEN /\ prog' = prog
       /\ uds' = [uds EXCEPT !.log = <<>>, !.calls = @ + 1, !.op = "step", !.seed = <<>>,
                             !.failed = 0, !.section = -1, !.result = Ok(<<"Completed">>)]
  ELSE LET to_send == Min(prog.data_len - prog.position, ChunkSize + 1)
           req == transfer_data(prog.position, to_send)
       IN IF ~ok
          THEN /\ prog' = prog
               /\ uds' = [uds EXCEPT !.log = <<req>>, !.calls = @ + 1,
                                     !.op = "step", !.seed = <<>>,
                                     !.failed = 1, !.result = Err("Obd"),
                                     !.passed = Append(@, <<prog.position, to_send>>)]
          ELSE /\ prog' = [prog EXCEPT !.position = @ + to_send]
               /\ uds' = [uds EXCEPT
                    !.log = <<req>>, !.calls = @ + 1,
                    !.op = "step", !.seed = <<>>, !.failed = 0,
                    !.chunks = Append(@, <<prog.position, to_send>>),
                    !.passed = Append(@, <<prog.position, to_send>>),
                    !.result = IF prog.position + to_send # prog.data_len
                               THEN Ok(<<"InProgress", prog.position + to_send>>)
                               ELSE Ok(<<"Completed">>),
                    !.reports = IF prog.position + to_send # prog.data_len
                                THEN Append(@, prog.position + to_send) ELSE @]

\* Programmer::step; ok tells whether the bus accepts the transfer
Programmer_step(ok) ==
  IF ~prog.erased
  THEN /\ prog' = prog
       /\ uds' = [uds EXCEPT !.log = <<>>, !.calls = @ + 1, !.op = "step", !.seed = <<>>,
                             !.failed = 0, !.section = -1, !.result = Err("NotErased")]
  ELSE IF prog.position = prog.data_len
  THEN /\ prog' = prog
       /\ uds' = [uds EXCEPT !.log = <<>>, !.calls = @ + 1, !.op = "step", !.seed = <<>>,
                             !.failed = 0, !.section = -1, !.result = Ok(<<"Completed">>)]
  ELSE LET to_send == Min(prog.data_len - prog.position, ChunkSize)
           req == transfer_data(prog.position, to_send)
       IN IF ~ok
          THEN /\ prog' = prog
               /\ uds' = [uds EXCEPT !.log = <<req>>, !.calls = @ + 1,
                                     !.op = "step", !.seed = <<>>,
                                     !.failed = 1, !.result = Err("Obd"),
                                     !.passed = Append(@, <<prog.position, to_send>>)]
          ELSE /\ prog' = [prog EXCEPT !.position = @ + to_send]
               /\ uds' = [uds EXCEPT
                    !.log = <<req>>, !.calls = @ + 1,
                    !.op = "step", !.seed = <<>>, !.failed = 0,
                    !.chunks = Append(@, <<prog.position, to_send>>),
                    !.passed = Append(@, <<prog.position, to_send>>),
                    !.result = IF prog.position + to_send # prog.data_len
                               THEN Ok(<<"InProgress", prog.position + to_send>>)
                               ELSE Ok(<<"Completed">>),
                    !.reports = IF prog.position + to_send # prog.data_len
                                THEN Append(@, prog.position + to_send) ELSE @]

ProgStep ==
  /\ prog.active
  /\ uds.calls < MaxProgCalls
  /\ \E ok \in BOOLEAN : Programmer_step(ok)
  /\ UNCHANGED <<overflow_checks, codec, can, writer, reader, dl, keygen>>

\* Downloader::new
Downloader_new ==
  [active |-> TRUE, offset |-> 0, remaining |-> 1024 * 1024, data_len |-> 0]

\* Downloader::start; exchange number fail (0: none) of authenticate fails
Downloader_start(seed, fail) ==
  LET a == authenticate(135, seed, fail) IN
  /\ dl' = dl
  /\ uds' = [uds EXCEPT !.log = a.log, !.starts = @ + 1, !.op = "start",
                        !.seed = IF fail \in {1, 2} THEN <<>> ELSE seed,
                        !.failed = fail, !.section = -1, !.result = a.result,
                        !.started = IF fail = 0 THEN TRUE ELSE @]

DlStart ==
  /\ dl.active
  /\ ~uds.dead
  /\ uds.calls = 0
  /\ uds.starts < MaxStarts
  /\ \E seed \in Seeds, fail \in 0..3 : Downloader_start(seed, fail)
  /\ UNCHANGED <<overflow_checks, codec, can, writer, reader, prog, keygen>>

\* what read_memory_address may return for a request of len bytes: an error,
\* or a section of some length (-1 stands for the error)
Responses(len) ==
  {len} \cup (IF uds.irregular < MaxIrregular
              THEN {-1, 0, (len + 1) \div 2, len + 1} ELSE {})

\* Downloader::step without the early return on remaining == 0
Downloader_step_no_early_return(section_len) ==
  LET len == MinUsize(dl.remaining, ChunkSize) % 65536
           req == Request("read_memory_address", <<dl.offset, len>>)
           irr == IF section_len # len THEN 1 ELSE 0
           u == [uds EXCEPT !.log = <<req>>, !.calls = @ + 1, !.op = "step", !.seed = <<>>,
                            !.irregular = @ + irr, !.section = section_len,
                            !.failed = IF section_len < 0 THEN 1 ELSE 0]
       IN IF section_len < 0
          THEN /\ dl' = dl
               /\ uds' = [u EXCEPT !.result = Err("Obd")]
          ELSE IF section_len = 0
          THEN /\ dl' = dl
               /\ uds' = [u EXCEPT !.result = Err("EmptyPacket")]
          ELSE IF dl.remaining > 0 /\ section_len > dl.remaining /\ overflow_checks
          THEN \* self.remaining -= section.len() overflows
               /\ dl' = [dl EXCEPT !.data_len = @ + section_len,
                                   !.offset = @ + section_len]
               /\ uds' = [u EXCEPT !.result = Panic, !.dead = TRUE]
          ELSE LET remaining == dl.remaining - section_len
                   data_len == dl.data_len + section_len
               IN /\ dl' = [dl EXCEPT !.data_len = data_len,
                                      !.offset = @ + section_len,
                                      !.remaining = remaining]
                  /\ uds' = [u EXCEPT
                       !.result = IF remaining # 0 THEN Ok(<<"InProgress", data_len>>)
                                  ELSE Ok(<<"Completed">>)]

\* Downloader::step without the test for an empty section
Downloader_step_empty_unchecked(section_len) ==
  IF dl.remaining = 0
  THEN /\ dl' = dl
       /\ uds' = [uds EXCEPT !.log = <<>>, !.calls = @ + 1, !.op = "step", !.seed = <<>>,
                             !.failed = 0, !.section = -1, !.result = Ok(<<"Completed">>)]
  ELSE LET len == MinUsize(dl.remaining, ChunkSize) % 65536
           req == Request("read_memory_address", <<dl.offset, len>>)
           irr == IF section_len # len THEN 1 ELSE 0
           u == [uds EXCEPT !.log = <<req>>, !.calls = @ + 1, !.op = "step", !.seed = <<>>,
                            !.irregular = @ + irr, !.section = section_len,
                            !.failed = IF section_len < 0 THEN 1 ELSE 0]
       IN IF section_len < 0
          THEN /\ dl' = dl
               /\ uds' = [u EXCEPT !.result = Err("Obd")]
          ELSE IF dl.remaining > 0 /\ section_len > dl.remaining /\ overflow_checks
          THEN \* self.remaining -= section.len() overflows
               /\ dl' = [dl EXCEPT !.data_len = @ + section_len,
                                   !.offset = @ + section_len]
               /\ uds' = [u EXCEPT !.result = Panic, !.dead = TRUE]
          ELSE LET remaining == dl.remaining - section_len
                   data_len == dl.data_len + section_len
               IN /\ dl' = [dl EXCEPT !.data_len = data_len,
                                      !.offset = @ + section_len,
                                      !.remaining = remaining]
                  /\ uds' = [u EXCEPT
                       !.result = IF remaining # 0 THEN Ok(<<"InProgress", data_len>>)
                                  ELSE Ok(<<"Completed">>)]

\* Downloader::step deciding InProgress or Completed on the remaining count of before the read
Downloader_step_stale_remaining(section_len) ==
  IF dl.remaining = 0
  THEN /\ dl' = dl
       /\ uds' = [uds EXCEPT !.log = <<>>, !.calls = @ + 1, !.op = "step", !.seed = <<>>,
                             !.failed = 0, !.section = -1, !.result = Ok(<<"Completed">>)]
  ELSE LET len == MinUsize(dl.remaining, ChunkSize) % 65536
           req == Request("read_memory_address", <<dl.offset, len>>)
           irr == IF section_len # len THEN 1 ELSE 0
           u == [uds EXCEPT !.log = <<req>>, !.calls = @ + 1, !.op = "step", !.seed = <<>>,
                            !.irregular = @ + irr, !.section = section_len,
                            !.failed = IF section_len < 0 THEN 1 ELSE 0]
       IN IF section_len < 0
          THEN /\ dl' = dl
               /\ uds' = [u EXCEPT !.result = Err("Obd")]
          ELSE IF section_len = 0
          THEN /\ dl' = dl
               /\ uds' = [u EXCEPT !.result = Err("EmptyPacket")]
          ELSE IF dl.remaining > 0 /\ section_len > dl.remaining /\ overflow_checks
          THEN \* self.remaining -= section.len() overflows
               /\ dl' = [dl EXCEPT !.data_len = @ + section_len,
                                   !.offset = @ + section_len]
               /\ uds' = [u EXCEPT !.result = Panic, !.dead = TRUE]
          ELSE LET remaining == dl.remaining - section_len
                   data_len == dl.data_len + section_len
               IN /\ dl' = [dl EXCEPT !.data_len = data_len,
                                      !.offset = @ + section_len,
                                      !.remaining = remaining]
                  /\ uds' = [u EXCEPT
                       !.result = IF dl.remaining # 0 THEN Ok(<<"InProgress", data_len>>)
                                  ELSE Ok(<<"Completed">>)]

\* Downloader::step; section_len is the length of the section the bus returns
Downloader_step(section_len) ==
  IF dl.remaining = 0
  THEN /\ dl' = dl
       /\ uds' = [uds EXCEPT !.log = <<>>, !.calls = @ + 1, !.op = "step", !.seed = <<>>,
                             !.failed = 0, !.section = -1, !.result = Ok(<<"Completed">>)]
  ELSE LET len == MinUsize(dl.remaining, ChunkSize) % 65536
           req == Request("read_memory_address", <<dl.offset, len>>)
           irr == IF section_len # len THEN 1 ELSE 0
           u == [uds EXCEPT !.log = <<req>>, !.calls = @ + 1, !.op = "step", !.seed = <<>>,
                            !.irregular = @ + irr, !.section = section_len,
                            !.failed = IF section_len < 0 THEN 1 ELSE 0]
       IN IF section_len < 0
          THEN /\ dl' = dl
               /\ uds' = [u EXCEPT !.result = Err("Obd")]
          ELSE IF section_len = 0
          THEN /\ dl' = dl
               /\ uds' = [u EXCEPT !.result = Err("EmptyPacket")]
          ELSE IF dl.remaining > 0 /\ section_len > dl.remaining /\ overflow_checks
          THEN \* self.remaining -= section.len() overflows
               /\ dl' = [dl EXCEPT !.data_len = @ + section_len,
                                   !.offset = @ + section_len]
               /\ uds' = [u EXCEPT !.result = Panic, !.dead = TRUE]
          ELSE LET remaining == dl.remaining - section_len
                   data_len == dl.data_len + section_len
               IN /\ dl' = [dl EXCEPT !.data_len = data_len,
                                      !.offset = @ + section_len,
                                      !.remaining = remaining]
                  /\ uds' = [u EXCEPT
                       !.result = IF remaining # 0 THEN Ok(<<"InProgress", data_len>>)
                                  ELSE Ok(<<"Completed">>)]

DlStep ==
  /\ dl.active
  /\ ~uds.dead
  /\ uds.calls < MaxDlCalls
  /\ \E section_len \in Responses(MinUsize(dl.remaining, ChunkSize)) :
       Downloader_step(section_len)
  /\ UNCHANGED <<overflow_checks, codec, can, writer, reader, prog, keygen>>

(***************************************************************************)
(* Specifications: one per component, and their union.                     *)
(***************************************************************************)
InitTransport(w, r, peer, faults) ==
  /\ overflow_checks \in BOOLEAN
  /\ codec = CodecIdle
  /\ writer = [WriterIdle EXCEPT !.pc = w]
  /\ reader = [ReaderIdle EXCEPT !.pc = r]
  /\ \E f \in faults : can = [CanIdle EXCEPT !.peer = peer, !.faults = f]
  /\ prog = ProgIdle
  /\ uds = UdsIdle
  /\ dl = DlIdle
  /\ keygen = KeyGenIdle

IdleTransport ==
  /\ can = CanIdle
  /\ writer = WriterIdle
  /\ reader = ReaderIdle

\* the codec on its own
InitSpecCodec ==
  /\ InitCodec
  /\ IdleTransport
  /\ prog = ProgIdle
  /\ uds = UdsIdle
  /\ dl = DlIdle
  /\ keygen = KeyGenIdle

SpecCodec ==
  InitSpecCodec /\ [][NextCodec]_vars

\* write_isotp and read_isotp on the two ends of one bus
InitLoop ==
  InitTransport("ready", "ready", FALSE, {0})

NextLoop ==
  \/ WriteCall
  \/ WriteStep
  \/ ReadCall
  \/ ReadStep
  \/ Tick

SpecLoop ==
  InitLoop /\ [][NextLoop]_vars

\* write_isotp against an arbitrary peer
InitWrite ==
  InitTransport("ready", "idle", TRUE, 0..MaxFaults)

NextWrite ==
  \/ WriteCall
  \/ WriteStep
  \/ PeerToWriter
  \/ Tick

SpecWrite ==
  InitWrite /\ [][NextWrite]_vars

\* read_isotp against an arbitrary peer
InitRead ==
  InitTransport("idle", "ready", TRUE, 0..MaxFaults)

NextRead ==
  \/ ReadCall
  \/ ReadStep
  \/ PeerToReader
  \/ Tick

SpecRead ==
  InitRead /\ [][NextRead]_vars

\* a Programmer on a Uds bus
InitProg ==
  /\ overflow_checks \in BOOLEAN
  /\ codec = CodecIdle
  /\ IdleTransport
  /\ \E offset \in {32768, 305419896}, data_len \in ProgLens :
       prog = Programmer_new(offset, data_len)
  /\ uds = UdsIdle
  /\ dl = DlIdle
  /\ keygen = KeyGenIdle

NextProg ==
  \/ ProgStart
  \/ ProgStep

SpecProg ==
  InitProg /\ [][NextProg]_vars

\* a Downloader on a Uds bus
InitDl ==
  /\ overflow_checks \in BOOLEAN
  /\ codec = CodecIdle
  /\ IdleTransport
  /\ prog = ProgIdle
  /\ uds = UdsIdle
  /\ dl = Downloader_new
  /\ keygen = KeyGenIdle

NextDl ==
  \/ DlStart
  \/ DlStep

SpecDl ==
  InitDl /\ [][NextDl]_vars

\* generate_key on its own
InitKey ==
  /\ overflow_checks \in BOOLEAN
  /\ codec = CodecIdle
  /\ IdleTransport
  /\ prog = ProgIdle
  /\ uds = UdsIdle
  /\ dl = DlIdle
  /\ \E key \in KeySecrets, parameter \in KeyParameters, seed \in KeySeeds :
       keygen = generate_key_enter(key, parameter, seed)

NextKey ==
  KeyGenStep

SpecKey ==
  InitKey /\ [][NextKey]_vars

Init ==
  \/ InitKey
  \/ InitSpecCodec
  \/ InitLoop
  \/ InitWrite
  \/ InitRead
  \/ InitProg
  \/ InitDl

Next ==
  \/ CodecEncode
  \/ CodecDecode
  \/ CodecStToDuration
  \/ CodecDurationToSt
  \/ WriteCall
  \/ WriteStep
  \/ ReadCall
  \/ ReadStep
  \/ PeerToWriter
  \/ PeerToReader
  \/ Tick
  \/ ProgStart
  \/ ProgStep
  \/ DlStart
  \/ DlStep
  \/ KeyGenStep

Spec ==
  Init /\ [][Next]_vars

(***************************************************************************)
(* Properties.                                                             *)
(***************************************************************************)
IsErr(res, e) ==
  res.tag = "Err" /\ res.val = e

IsOk(res, v) ==
  res.tag = "Ok" /\ res.val = v

\* the call did not end on a failure of the adapter or on the deadline
NoBusFailure(res) ==
  ~IsErr(res, "Io") /\ ~IsErr(res, "TimedOut")

\* the kind of frame a CAN message carries on the wire (ISO-TP, byte 0)
WireKind(msg) ==
  CASE msg.data[1] \div 16 = 0 -> "Single"
    [] msg.data[1] \div 16 = 1 -> "First"
    [] msg.data[1] \div 16 = 2 -> "Consecutive"
    [] msg.data[1] \div 16 = 3 /\ msg.data[1] % 4 # 3 -> "Flow"
    [] OTHER -> "Invalid"

CeilDiv(a, b) ==
  (a + b - 1) \div b

\* C1: for every payload of 8..4095 bytes, read_isotp fed the frames that
\* write_isotp emits for it returns exactly the payload: same length, same
\* content, nothing appended.
C1_RoundTripMulti ==
  (/\ reader.pc = "done"
   /\ Len(writer.data) \in 8..4095
   /\ can.got_r # <<>>
   /\ NoBusFailure(reader.result))
  => IsOk(reader.result, writer.data)

\* C2: for every payload of 0..7 bytes, write_isotp sends exactly one CAN
\* message, a Single frame, and waits for no Flow frame; read_isotp applied to
\* that message returns the payload unchanged.
C2_SingleFrame ==
  /\ (writer.pc = "done" /\ Len(writer.data) <= 7)
     => /\ writer.result.tag = "Ok"
        /\ can.tx_w = <<Message(SourceId, <<Len(writer.data)>> \o Padded(writer.data, 7))>>
        /\ can.got_w = <<>>
  /\ (/\ writer.pc = "done"
      /\ Len(writer.data) <= 7
      /\ reader.pc = "done"
      /\ can.got_r # <<>>)
     => IsOk(reader.result, writer.data)

\* C3: decoding the encoding of a frame gives the frame back, for every
\* constructible frame of the four variants.
C3_DecodeEncode ==
  (codec.stage = "decoded" /\ codec.frame.kind # "None")
  => IsOk(codec.res, codec.frame)

\* C4: decoding a message whose byte 0 has high nibble 4..15 yields
\* InvalidFrameId, and decoding a Flow frame whose flag bits are 3 yields
\* InvalidFcFlag.
C4_DecodeErrors ==
  (codec.stage = "decoded" /\ codec.frame.kind = "None")
  => /\ (codec.msg.data[1] \div 16 >= 4 => IsErr(codec.res, "InvalidFrameId"))
     /\ (codec.msg.data[1] \div 16 = 3 /\ codec.msg.data[1] % 4 = 3
           => IsErr(codec.res, "InvalidFcFlag"))

\* C5: for every separation-time byte b in 0xF1..0xF9,
\* duration_to_st(st_to_duration(b)) = b.
C5_StRoundTrip ==
  (codec.stage = "st2" /\ codec.st \in 241..249) => codec.st2 = codec.st

\* C6: a step() called while no start() has succeeded returns NotErased,
\* sends no request to the bus and leaves position unchanged.
C6_StepBeforeStart ==
  [][(uds'.op = "step" /\ uds'.calls = uds.calls + 1 /\ ~uds.started)
       => /\ IsErr(uds'.result, "NotErased")
          /\ uds'.log = <<>>
          /\ prog'.position = prog.position]_vars

C6_Witness ==
  /\ uds.op = "step"
  /\ uds.starts > 0
  /\ ~uds.started
  /\ IsErr(uds.result, "NotErased")

\* C7: after a successful start(), the InProgress values step() reports are
\* strictly increasing and below the length L of the source buffer, step()
\* returns Completed exactly when position equals L, and that happens after
\* ceil(L / 0xFFE) successful transfer_data calls (none for L = 0).
C7_Drain ==
  /\ \A i \in 1..Len(uds.reports) :
       /\ uds.reports[i] < prog.data_len
       /\ uds.reports[i] > (IF i = 1 THEN 0 ELSE uds.reports[i - 1])
  /\ (uds.op = "step" /\ uds.result.tag = "Ok")
     => /\ (uds.result.val = <<"Completed">>) <=> (prog.position = prog.data_len)
        /\ uds.result.val # <<"Completed">>
             => uds.result.val = <<"InProgress", prog.position>>
        /\ uds.result.val = <<"Completed">>
             => Len(uds.chunks) = CeilDiv(prog.data_len, ChunkSize)

C7_Witness ==
  /\ uds.op = "step"
  /\ IsOk(uds.result, <<"Completed">>)
  /\ Len(uds.reports) >= 1
  /\ Len(uds.chunks) >= 2

\* C8: with the bus returning the bytes asked for (0xFFE per read), every
\* step() but the last returns InProgress, call number ceil(1048576 / 4094)
\* returns Completed, and the buffer then holds exactly 1048576 bytes.
C8_DownloadCalls ==
  (uds.op = "step" /\ uds.irregular = 0)
  => /\ uds.calls < CeilDiv(TotalSize, ChunkSize)
          => IsOk(uds.result, <<"InProgress", dl.data_len>>)
     /\ uds.calls >= CeilDiv(TotalSize, ChunkSize)
          => IsOk(uds.result, <<"Completed">>) /\ dl.data_len = TotalSize

C8_Witness ==
  /\ uds.op = "step"
  /\ uds.irregular = 0
  /\ uds.calls = 257
  /\ IsOk(uds.result, <<"Completed">>)
  /\ dl.data_len = 1048576

\* C9: in read_isotp an opening Consecutive or Flow frame yields
\* UnexpectedFrame; while draining after a First frame a frame that is not
\* Consecutive yields UnexpectedFrame and a Consecutive frame with another
\* index than the expected one (1, 2, ... modulo 16) yields InvalidIndex.
C9_ReadErrors ==
  (reader.pc = "done" /\ can.got_r # <<>> /\ NoBusFailure(reader.result))
  => LET n == Len(can.got_r)
         last == can.got_r[n]
     IN /\ (n = 1 /\ WireKind(last) \in {"Consecutive", "Flow"})
             => IsErr(reader.result, "UnexpectedFrame")
        /\ (n > 1 /\ WireKind(last) \in {"Single", "First", "Flow"})
             => IsErr(reader.result, "UnexpectedFrame")
        /\ (n > 1 /\ WireKind(last) = "Consecutive"
                  /\ last.data[1] % 16 # (n - 1) % 16)
             => IsErr(reader.result, "InvalidIndex")

\* the segmentation of a payload of 8..4095 bytes: a First frame with the
\* size and the first 6 bytes, then Consecutive frames 1, 2, ..., 15, 0, ...
C10_Segments(data) ==
  LET n == Len(data) IN
  <<Message(SourceId, <<16 + (n \div 256), n % 256>> \o SubSeq(data, 1, 6))>>
  \o [k \in 1..CeilDiv(n - 6, 7) |->
        Message(SourceId,
                <<32 + (k % 16)>> \o Padded(SubSeq(data, 7 * k, Min(n, 7 * k + 6)), 7))]

\* C10: for a payload of 8..4095 bytes and a peer answering with valid Flow
\* frames, write_isotp emits one First frame declaring the size and carrying
\* the first 6 bytes, then exactly ceil((n-6)/7) Consecutive frames with
\* indices 1, 2, ..., 15, 0, 1, ... carrying the next bytes in order.
C10_WriteSegments ==
  (/\ writer.pc = "done"
   /\ Len(writer.data) \in 8..4095
   /\ can.got_w # <<>>
   /\ \A i \in 1..Len(can.got_w) : WireKind(can.got_w[i]) = "Flow"
   /\ NoBusFailure(writer.result))
  => /\ writer.result.tag = "Ok"
     /\ can.tx_w = C10_Segments(writer.data)

\* hexadecimal digit i (0: lowest) of p
Nibble(p, i) ==
  (p \div (16 ^ i)) % 16

\* the three bytes the low 24 bits of p are repacked into
C11_Repacked(p) ==
  <<Nibble(p, 2) * 16 + Nibble(p, 1),
    Nibble(p, 3) * 16 + Nibble(p, 5),
    Nibble(p, 0) * 16 + Nibble(p, 4)>>

C11_Total(k) ==
  8 * (Len(k.seed) + Len(k.key))

\* what a call has still to do: its inner iterations and its return
C11_Left(k) ==
  IF k.pc = "loop" THEN 1 + k.bits + 8 * Len(k.nseed) ELSE 0

C11_KeySteps(k) ==
  /\ k.pc = "loop" => k.steps + C11_Left(k) = 1 + C11_Total(k)
  /\ k.pc = "done" =>
       /\ k.steps = C11_Total(k)
       /\ Len(k.res) = 3
       /\ \A i \in 1..3 : k.res[i] \in 0..255
       /\ k.res = generate_key(k.key, k.input, k.seed)
       /\ (k.seed = <<>> /\ k.key = <<>>) =>
            /\ k.steps = 0
            /\ k.res = C11_Repacked(k.input)

\* C11: every call of generate_key returns (each step leaves strictly less
\* to do), after exactly 8 steps per byte of the seed followed by the
\* secret, 3 bytes that are the function generate_key of (secret,
\* parameter, seed); with an empty seed and an empty secret it performs no
\* step and returns the repacking of the low 24 bits of the parameter.
C11_KeyTerminates ==
  [][/\ C11_KeySteps(keygen)
     /\ C11_KeySteps(keygen')
     /\ keygen' # keygen => C11_Left(keygen') < C11_Left(keygen)]_vars

\* a call on a non-empty seed and secret has returned
C11_Witness ==
  /\ keygen.pc = "done"
  /\ keygen.seed \in Seeds
  /\ keygen.key = MZR_KEY
  /\ keygen.input = KeyParameter
  /\ keygen.steps = 64

\* the requests of a start() are the first ones of: session 0x85, seed, key,
\* erase (0xB1), request download (0x34)
C12_InOrder(log) ==
  /\ Len(log) <= 5
  /\ Len(log) >= 1 => log[1] = Request("set_diagnostic_session", <<133>>)
  /\ Len(log) >= 2 => log[2].op = "request_security_seed"
  /\ Len(log) >= 3 => log[3].op = "request_security_key"
  /\ Len(log) >= 4 => log[4] = Request(177, <<0, 178, 0>>)
  /\ Len(log) >= 5 => log[5].op = UDS_REQ_REQUESTDOWNLOAD

\* C12: a step() puts a transfer_data request (0x36) on the bus only after a
\* start() that succeeded; a start() issues its requests in the order
\* authenticate(0x85), erase (0xB1), request_download; when none fails it
\* issues all five, returns Ok and sets the erased flag; when one fails it
\* returns the error, that request is the last one it issued and the erased
\* flag is left as it was.
C12_StartOrder ==
  [][/\ (uds'.op = "step" /\ uds'.calls = uds.calls + 1 /\ uds'.log # <<>>)
          => /\ uds.started
             /\ prog.erased
             /\ \A i \in 1..Len(uds'.log) : uds'.log[i].op = UDS_REQ_TRANSFERDATA
     /\ (uds'.op = "start" /\ uds'.calls = uds.calls + 1)
          => /\ C12_InOrder(uds'.log)
             /\ uds'.failed = 0
                  => /\ Len(uds'.log) = 5
                     /\ IsOk(uds'.result, <<>>)
                     /\ prog'.erased
                     /\ uds'.started
             /\ uds'.failed # 0
                  => /\ Len(uds'.log) = uds'.failed
                     /\ IsErr(uds'.result, "Obd")
                     /\ prog'.erased = prog.erased
                     /\ uds'.started = uds.started]_vars

\* a start() fails at the erase request after a start() that succeeded and a
\* transfer
C12_Witness ==
  /\ uds.op = "start"
  /\ uds.failed = 4
  /\ Len(uds.log) = 4
  /\ uds.started
  /\ Len(uds.chunks) >= 1

\* the block sizes of the first k Flow frames received: their sum, and
\* whether one of them is 0
RECURSIVE C13_Sum(_, _)
C13_Sum(flows, k) ==
  IF k = 0 THEN 0 ELSE flows[k].data[2] + C13_Sum(flows, k - 1)

C13_Open(flows, k) ==
  \E i \in 1..k : flows[i].data[2] = 0

\* C13: write_isotp of a multi-frame payload whose peer answers with valid
\* Flow frames emits exactly B Consecutive frames after a Flow frame with
\* block size B > 0 and then awaits a fresh one, unless the payload is
\* exhausted; after a Flow frame with block size 0 it emits all remaining
\* Consecutive frames and awaits no further Flow frame; it ends with Ok once
\* the ceil((n-6)/7) Consecutive frames are out.
C13_BlockSize ==
  (/\ Len(writer.data) \in 8..4095
   /\ can.got_w # <<>>
   /\ \A i \in 1..Len(can.got_w) : WireKind(can.got_w[i]) = "Flow"
   /\ NoBusFailure(writer.result))
  => LET k == Len(can.got_w)
         sent == Len(can.tx_w) - 1
         total == CeilDiv(Len(writer.data) - 6, 7)
     IN /\ ~C13_Open(can.got_w, k - 1)
        /\ C13_Sum(can.got_w, k - 1) < total
        /\ sent >= C13_Sum(can.got_w, k - 1)
        /\ writer.pc = "await_fc"
             => /\ ~C13_Open(can.got_w, k)
                /\ sent = C13_Sum(can.got_w, k)
                /\ sent < total
        /\ writer.pc = "send"
             => /\ sent < total
                /\ C13_Open(can.got_w, k) \/ sent < C13_Sum(can.got_w, k)
        /\ writer.pc = "done"
             => /\ writer.result.tag = "Ok"
                /\ sent = total
                /\ C13_Open(can.got_w, k) \/ total <= C13_Sum(can.got_w, k)

\* the 12-bit size a First frame declares on the wire
C14_WireSize(msg) ==
  (msg.data[1] % 16) * 256 + msg.data[2]

\* C14: for a First frame declaring a size S >= 6 followed by correctly
\* indexed Consecutive frames, read_isotp takes ceil((S-6)/7) of them and
\* returns 6 + 7 * ceil((S-6)/7) bytes, the 7 bytes of every Consecutive
\* frame included: more than S when S - 6 is not a multiple of 7.
C14_ReadLength ==
  (/\ reader.pc = "done"
   /\ can.got_r # <<>>
   /\ WireKind(can.got_r[1]) = "First"
   /\ C14_WireSize(can.got_r[1]) >= 6
   /\ \A i \in 2..Len(can.got_r) :
        /\ WireKind(can.got_r[i]) = "Consecutive"
        /\ can.got_r[i].data[1] % 16 = (i - 1) % 16
   /\ NoBusFailure(reader.result))
  => LET frames == CeilDiv(C14_WireSize(can.got_r[1]) - 6, 7) IN
     /\ reader.result.tag = "Ok"
     /\ Len(can.got_r) = 1 + frames
     /\ Len(reader.result.val) = 6 + 7 * frames

\* C15: a read_isotp whose opening frame is a First frame sends exactly one
\* frame, a Flow frame (Continue, block size 0, separation time 0), and has
\* sent it before it takes any Consecutive frame; one whose opening frame is
\* a Single frame sends nothing.
C15_ReaderSends ==
  (can.got_r # <<>> /\ reader.pc # "open" /\ NoBusFailure(reader.result))
  => /\ WireKind(can.got_r[1]) = "First"
          => can.tx_r = <<Message(DestId, <<48, 0, 0, 0, 0, 0, 0, 0>>)>>
     /\ WireKind(can.got_r[1]) = "Single" => can.tx_r = <<>>

\* C16: for every First frame size in 0..4095 the encoded message has
\* byte 0 = 0x10 | (size >> 8) and byte 1 = size & 0xFF, and decoding that
\* message gives a First frame of the same size.
C16_FirstSize ==
  codec.frame.kind = "First"
  => /\ codec.stage = "msg"
          => /\ codec.msg.data[1] = 16 + (codec.frame.size \div 256)
             /\ codec.msg.data[2] = codec.frame.size % 256
     /\ codec.stage = "decoded"
          => /\ codec.res.tag = "Ok"
             /\ codec.res.val.kind = "First"
             /\ codec.res.val.size = codec.frame.size

\* C17: when the message write_isotp receives while it awaits a Flow frame
\* carries a frame of another kind (Single, First or Consecutive), it fails
\* with UnexpectedFrame, having sent only the First frame and the Consecutive
\* frames of the blocks granted before.
C17_NotFlow ==
  (/\ Len(writer.data) \in 8..4095
   /\ can.got_w # <<>>
   /\ WireKind(can.got_w[Len(can.got_w)]) \in {"Single", "First", "Consecutive"}
   /\ \A i \in 1..(Len(can.got_w) - 1) : WireKind(can.got_w[i]) = "Flow"
   /\ NoBusFailure(writer.result))
  => /\ writer.pc = "done"
     /\ IsErr(writer.result, "UnexpectedFrame")
     /\ Len(can.tx_w) = 1 + C13_Sum(can.got_w, Len(can.got_w) - 1)

C19_IdFilter ==
  [][/\ \A i \in 1..Len(can'.got_r) : can'.got_r[i].id = SourceId
     /\ (/\ reader.pc \in {"open", "drain"}
         /\ can.rx_r # <<>>
         /\ Head(can.rx_r).id # SourceId
         /\ can'.rx_r = Tail(can.rx_r))
        => /\ can'.got_r = can.got_r
           /\ can'.tx_r = can.tx_r
           /\ reader' = IF can.now - reader.start_time >= Timeout
                        THEN Finished(reader, Err("TimedOut"))
                        ELSE [reader EXCEPT !.read_time = can.now]]_vars

\* a message of another id was discarded before the deadline and another one
\* after it
C19_Witness ==
  /\ reader.pc = "done"
  /\ IsErr(reader.result, "TimedOut")
  /\ can.injected = 2
  /\ can.got_r = <<>>

\* C20: a step() whose memory read returns zero bytes fails with EmptyPacket
\* (so it reports neither InProgress nor Completed) and leaves offset,
\* remaining and the length of the accumulated buffer as they were.
C20_EmptyPacket ==
  [][(uds'.op = "step" /\ uds'.calls = uds.calls + 1 /\ uds'.section = 0)
       => /\ IsErr(uds'.result, "EmptyPacket")
          /\ dl'.offset = dl.offset
          /\ dl'.remaining = dl.remaining
          /\ dl'.data_len = dl.data_len]_vars

\* an empty section after some sections were stored
C20_Witness ==
  /\ uds.op = "step"
  /\ uds.section = 0
  /\ IsErr(uds.result, "EmptyPacket")
  /\ dl.data_len > 0
  /\ dl.remaining > 0

\* C21: step() returns Completed only with remaining at zero, and a step()
\* that follows one that returned Completed returns Completed again, puts
\* no request on the bus and leaves offset, remaining and the length of the
\* buffer as they were.
C21_CompletedAgain ==
  [][/\ (uds'.op = "step" /\ IsOk(uds'.result, <<"Completed">>))
          => dl'.remaining = 0
     /\ (/\ uds.op = "step"
         /\ IsOk(uds.result, <<"Completed">>)
         /\ uds'.op = "step"
         /\ uds'.calls = uds.calls + 1)
        => /\ IsOk(uds'.result, <<"Completed">>)
           /\ uds'.log = <<>>
           /\ dl'.offset = dl.offset
           /\ dl'.remaining = dl.remaining
           /\ dl'.data_len = dl.data_len]_vars

\* two more calls of step() after the one that completed the download
C21_Witness ==
  /\ uds.op = "step"
  /\ uds.irregular = 0
  /\ uds.calls >= 259
  /\ IsOk(uds.result, <<"Completed">>)
  /\ uds.log = <<>>

\* C22: authenticate issues set-diagnostic-session (with its session id),
\* request-seed and submit-key in that order, each at most once, the key
\* being generate_key("MazdA", 0xC541A9, seed) for the seed it received; when
\* an exchange fails it returns the error and that exchange is the last one
\* it issued.
C22_Authenticate ==
  uds.op = "start"
  => /\ Len(uds.log) <= 3
     /\ Len(uds.log) >= 1 => uds.log[1] = Request("set_diagnostic_session", <<135>>)
     /\ Len(uds.log) >= 2 => uds.log[2] = Request("request_security_seed", <<>>)
     /\ Len(uds.log) >= 3
          => /\ uds.seed \in Seeds
             /\ uds.log[3] = Request("request_security_key",
                                     generate_key(MZR_KEY, KeyParameter, uds.seed))
     /\ uds.failed = 0 => (Len(uds.log) = 3 /\ IsOk(uds.result, <<>>))
     /\ uds.failed # 0 => (Len(uds.log) = uds.failed /\ IsErr(uds.result, "Obd"))

\* a second authenticate, whose three exchanges succeeded
C22_Witness ==
  /\ uds.op = "start"
  /\ uds.starts = 2
  /\ uds.failed = 0
  /\ Len(uds.log) = 3
  /\ IsOk(uds.result, <<>>)

\* C23: whatever non-empty sections the bus returns, a Downloader keeps
\* buffer length + remaining = 1048576 and offset = buffer length, so that
\* remaining is never below zero and the buffer never above 1 MiB, and each
\* read request asks for min(remaining, 0xFFE) bytes at the current offset.
C23_DownloaderInvariant ==
  [][/\ dl'.data_len + dl'.remaining = TotalSize
     /\ dl'.offset = dl'.data_len
     /\ dl'.remaining >= 0
     /\ dl'.data_len <= TotalSize
     /\ (uds'.op = "step" /\ uds'.calls = uds.calls + 1 /\ uds'.log # <<>>)
          => uds'.log = <<Request("read_memory_address",
                                  <<dl.offset, Min(dl.remaining, ChunkSize)>>)>>]_vars

\* the end of the last of the given chunks (start, length)
C24_End(chunks) ==
  IF chunks = <<>> THEN 0
  ELSE chunks[Len(chunks)][1] + chunks[Len(chunks)][2]

\* the chunks, concatenated, are a prefix of a buffer of n bytes cut every
\* 0xFFE bytes: each begins where the one before ended
C24_Prefix(chunks, n) ==
  \A i \in 1..Len(chunks) :
    /\ chunks[i][1] = C24_End(SubSeq(chunks, 1, i - 1))
    /\ chunks[i][2] = Min(n - chunks[i][1], ChunkSize)

\* C24 as stated: all the chunks step() passes to transfer_data, those of
\* failing calls included, form in call order a prefix of the source
\* buffer, and the whole buffer on completion.
C24_PassedPrefix ==
  /\ C24_Prefix(uds.passed, prog.data_len)
  /\ (uds.op = "step" /\ IsOk(uds.result, <<"Completed">>))
       => C24_End(uds.passed) = prog.data_len

\* C24, amended: the chunks whose transfer_data succeeded form, in call
\* order, a prefix of the source buffer that ends at position, and the whole
\* buffer on completion; every chunk passed to transfer_data starts at the
\* current position and has length min(L - position, 0xFFE); a failing
\* transfer_data leaves position unchanged, so the next step() passes the
\* same chunk again.
C24_ChunksPrefix ==
  [][/\ C24_Prefix(uds'.chunks, prog'.data_len)
     /\ prog'.position = C24_End(uds'.chunks)
     /\ (uds'.op = "step" /\ IsOk(uds'.result, <<"Completed">>))
          => C24_End(uds'.chunks) = prog'.data_len
     /\ (uds'.op = "step" /\ uds'.calls = uds.calls + 1 /\ uds'.log # <<>>)
          => /\ uds'.log =
                  <<transfer_data(prog.position,
                                  Min(prog.data_len - prog.position, ChunkSize))>>
             /\ uds'.failed # 0 => prog'.position = prog.position]_vars

\* a transfer failed, was repeated, and the buffer was then sent to its end
C24_Witness ==
  /\ uds.op = "step"
  /\ IsOk(uds.result, <<"Completed">>)
  /\ Len(uds.chunks) >= 2
  /\ Len(uds.passed) > Len(uds.chunks)

\* C25: a step of generate_key on the accumulator p < 2^24 and the input bit
\* b gives ((p + s * 2^24) >> 1) XOR (0x109028 if s = 1, else 0) with
\* s = b XOR (p mod 2), which is what the AND/XOR/AND/OR sequence with the
\* masks 0xFFEF6FD7 and 0x00109028 computes, and the accumulator is below
\* 2^24 after it.
C25_StepIsXor ==
  [][(keygen.pc = "loop" /\ keygen'.steps = keygen.steps + 1)
       => LET p == keygen.parameter
              b == (IF keygen.bits > 0 THEN keygen.c ELSE Head(keygen.nseed)) % 2
              s == (b + p) % 2
          IN /\ p < 16777216
             /\ keygen'.parameter =
                  BitXor((p + s * 16777216) \div 2, IF s = 1 THEN 1085480 ELSE 0)
             /\ keygen'.parameter \in 0..16777215]_vars

\* a step with s = 1 (it has set bit 23) on an accumulator whose bit 21 was
\* set (bit 20 after the shift, inside the mask 0x109028)
C25_Witness ==
  /\ keygen.pc = "loop"
  /\ keygen.steps > 0
  /\ keygen.parameter >= 8388608
  /\ (keygen.parameter \div 1048576) % 2 = 0

====
